---- MODULE Spec2Model ----
(***************************************************************************)
(* Model of the cryptycoon game server (src/server/index.js): the session  *)
(* registry, the position ledger (handleOrder, markToMarket), the faucet   *)
(* and the tick scheduler with its provider refresh.                       *)
(*                                                                         *)
(* Numbers.  The server computes with JavaScript doubles and rounds with   *)
(* toFixed.  Here every number is a fixed-point integer counting units of  *)
(* 0.0001 (Unit units make 1.0): prices, sizes, amounts.  A source         *)
(* expression a * b / c is evaluated exactly and rounded once, half away   *)
(* from zero, to that grid (MulDiv); roundBalance then rounds a grid value *)
(* to 0.01.  Only unrealizedPnl counts cents instead of units.  Products   *)
(* are formed by MulDivQR, which never builds a number larger than its     *)
(* result, so that 32-bit evaluation cannot overflow.                      *)
(***************************************************************************)
EXTENDS Integers, Sequences, FiniteSets, TLC

\* sessions and priceSnapshots are the server's; connected is the set of live
\* sockets; pendingTicks holds, for each tick waiting on its refresh, the
\* providers it still awaits; nGames, nTicks and nOrders count the messages
\* and ticks handled; last is the last place_order and its outcome; emitted
\* is what the last step sent out, a push as <<socket, event>> and a caught
\* fetch error as <<provider, "fetch_failed">>; candles is the candle list of
\* one symbol of one session, followed on its own, and now the clock its
\* updates read, in milliseconds; drawn holds the Math.random() draws the
\* last step's session loop made for each session; client is the state of
\* the browser client (src/unnamed/part_001) as far as its start_game
\* messages go
VARIABLES sessions, priceSnapshots, connected, pendingTicks, nGames, nTicks, nOrders, last,
          emitted, candles, now, drawn, client

vars == <<sessions, priceSnapshots, connected, pendingTicks, nGames, nTicks, nOrders, last,
          emitted, candles, now, drawn, client>>

-----------------------------------------------------------------------------
(* Bounds of the model *)

MaxOrders == 2
MaxTicks == 2
MaxInFlight == 2
\* start_game, place_order and tick together
MaxOps == 4
\* candle updates followed from one starting list
MaxCandleTicks == 4
\* start_game, place_order and tick events in a run of MarketSpec
MaxMarketOps == 3
\* start actions of the user and connections of the client's socket
MaxStarts == 3
MaxConnects == 4

-----------------------------------------------------------------------------
(* Program constants *)

\* PRICE_PRECISION = 4: one unit of the grid is 0.0001
Unit == 10000
\* BALANCE_PRECISION = 2: 0.01 is 100 units
Cent == 100
\* Math.max(0.0001, ...) in tick and mutateInternalSnapshot
MinPrice == 1
\* the tick interval, in milliseconds
TICK_MS == 3000
\* the number of botNames
NumBots == 20
\* the length generateInitialCandles gives a list
InitialCandles == 30
\* the length above which updateCandles drops the first candle
MaxCandles == 120
\* the levels buildOrderBook gives each side of a book
BookLevels == 8
\* random factors and exact cent fractions are counted in millionths
Million == Unit * Cent

Sockets == {"s1"}

\* the tracked subset of `assets`
Assets == {"BTC", "USD", "EUR"}

priceProviders == {"internal", "coingecko", "binance"}

externalProviders == {"coingecko", "binance"}

initialSeedPrices == [a \in Assets |->
  CASE a = "BTC" -> 67000 * Unit
    [] a = "USD" -> 1 * Unit
    [] a = "EUR" -> 9200]

\* the assets a feed reports (coingeckoIds, binanceSymbols), among Assets
feedAssets == [p \in externalProviders |-> {"BTC"}]

Difficulties == {"Real-World", "Easy", "Medium", "Hard"}

Modes == {"EZ-Mode", "Admin", "Whale"}

-----------------------------------------------------------------------------
(* Arithmetic *)

Abs(x) == IF x < 0 THEN -x ELSE x

Sgn(x) == IF x < 0 THEN -1 ELSE IF x > 0 THEN 1 ELSE 0

Max(a, b) == IF a >= b THEN a ELSE b

\* <<q, r>> with a * b = q * c + r and 0 <= r < c, for a, b >= 0 and c > 0;
\* b is taken four bits at a time where 31 * c stays below 2^31
RECURSIVE MulDivQR(_, _, _)
MulDivQR(a, b, c) ==
  IF b = 0 THEN <<0, 0>>
  ELSE LET radix == IF c <= 67108864 THEN 16 ELSE 2
           h     == MulDivQR(a, b \div radix, c)
           t     == radix * h[2] + (b % radix) * (a % c)
       IN  <<radix * h[1] + (b % radix) * (a \div c) + (t \div c), t % c>>

\* a * b / c rounded to the nearest integer, halves away from zero (c > 0)
MulDiv(a, b, c) ==
  LET qr == MulDivQR(Abs(a), Abs(b), c)
      m  == qr[1] + (IF 2 * qr[2] >= c THEN 1 ELSE 0)
  IN  Sgn(a) * Sgn(b) * m

\* a * b / c rounded to the nearest integer, halves upwards (b >= 0, c > 0)
MulDivUp(a, b, c) ==
  LET qr == MulDivQR(Abs(a), b, c)
  IN  IF a >= 0 THEN qr[1] + (IF 2 * qr[2] >= c THEN 1 ELSE 0)
      ELSE -(qr[1] + (IF 2 * qr[2] > c THEN 1 ELSE 0))

\* the smallest integer >= a / b, for a >= 0 and b > 0
CeilDiv(a, b) == (a + b - 1) \div b

\* Number((a * b / c).toFixed(PRICE_PRECISION)), the value a * b / c being
\* in grid units
roundPrice(a, b, c) == MulDiv(a, b, c)

\* Number(value.toFixed(BALANCE_PRECISION)) of a grid value
roundBalance(value) == Sgn(value) * ((Abs(value) + Cent \div 2) \div Cent) * Cent

\* n + r / d (0 <= r < d) rounded to the nearest integer, halves away from zero
RoundFrac(n, r, d) ==
  IF n >= 0 THEN n + (IF 2 * r >= d THEN 1 ELSE 0)
  ELSE n + (IF 2 * r > d THEN 1 ELSE 0)

\* a JavaScript object read: object[key], 0 standing for undefined
Get(object, key) == IF key \in DOMAIN object THEN object[key] ELSE 0

\* a JavaScript object write: object[key] = value
Put(object, key, value) ==
  [k \in DOMAIN object \cup {key} |-> IF k = key THEN value ELSE object[k]]

\* { ...under, ...over }
Merge(under, over) ==
  [k \in DOMAIN under \cup DOMAIN over |->
     IF k \in DOMAIN over THEN over[k] ELSE under[k]]

-----------------------------------------------------------------------------
(* Position ledger *)

\* session.market.prices[symbol] || entryPrice
positionPx(session, pos) ==
  LET px == Get(session.market.prices, pos.symbol)
  IN  IF px = 0 THEN pos.entryPrice ELSE px

\* variant: the liquidation price itself does not liquidate
liquidationCrossed_strict(pos, px) ==
  IF pos.side = "long"
  THEN pos.entryPrice - px > CeilDiv(pos.entryPrice, pos.leverage)
  ELSE px - pos.entryPrice > CeilDiv(pos.entryPrice, pos.leverage)

\* variant: a short is liquidated like a long
liquidationCrossed_long(pos, px) ==
  pos.entryPrice - px >= CeilDiv(pos.entryPrice, pos.leverage)

\* px <= entryPrice * (1 - 1 / leverage) for a long, px >= entryPrice *
\* (1 + 1 / leverage) for a short: both say that the adverse move is at
\* least entryPrice / leverage
liquidationCrossed(pos, px) ==
  IF pos.side = "long"
  THEN pos.entryPrice - px >= CeilDiv(pos.entryPrice, pos.leverage)
  ELSE px - pos.entryPrice >= CeilDiv(pos.entryPrice, pos.leverage)

\* pnl * leverage of one position, exactly, in cents: <<whole, millionths>>,
\* both carrying the sign of the price move
leveragedPnl(pos, px) ==
  LET diff == IF pos.side = "long" THEN px - pos.entryPrice ELSE pos.entryPrice - px
      qr   == MulDivQR(Abs(diff), pos.quantity * pos.leverage, Million)
  IN  <<Sgn(diff) * qr[1], Sgn(diff) * qr[2]>>

RECURSIVE SumPart(_, _, _)
SumPart(parts, k, n) == IF n = 0 THEN 0 ELSE parts[n][k] + SumPart(parts, k, n - 1)

RECURSIVE SumMargin(_, _)
SumMargin(poss, n) == IF n = 0 THEN 0 ELSE poss[n].margin + SumMargin(poss, n - 1)

\* the forEach of markToMarket: roundBalance of the running total; the result
\* counts cents (a leveraged total can exceed what 32 bits hold in units)
unrealizedOf(session) ==
  LET poss  == session.positions
      parts == [i \in 1..Len(poss) |-> leveragedPnl(poss[i], positionPx(session, poss[i]))]
      whole == SumPart(parts, 1, Len(poss))
      frac  == SumPart(parts, 2, Len(poss))
  IN  RoundFrac(whole + frac \div Million, frac % Million, Million)

\* what the liquidation branch does to one position
liquidate(pos) == [pos EXCEPT !.margin = 0, !.quantity = 0, !.liquidated = TRUE]

stillOpen_all(p) == TRUE

\* the filter of markToMarket
stillOpen(p) == p.quantity > 0 /\ ~p.liquidated

markToMarket(session) ==
  LET poss       == session.positions
      crossed(p) == liquidationCrossed(p, positionPx(session, p))
      flagged    == [i \in 1..Len(poss) |->
                       IF crossed(poss[i]) THEN liquidate(poss[i]) ELSE poss[i]]
      hit        == SelectSeq(poss, crossed)
  IN  [session EXCEPT
         !.realizedPnl   = @ - SumMargin(hit, Len(hit)),
         !.unrealizedPnl = unrealizedOf(session),
         !.positions     = SelectSeq(flagged, stillOpen)]

\* baseUsd / quoteUsd, carried at four decimals
pairPriceOf(baseUsd, quoteUsd) == roundPrice(baseUsd, Unit, quoteUsd)

\* size * pairPrice
costInQuoteOf(size, baseUsd, quoteUsd) == MulDiv(size, baseUsd, quoteUsd)

\* variant: the margin is the full cost at every leverage
marginOf_spot(costInQuote, leverage) == costInQuote

\* leverage > 1 ? costInQuote / leverage : costInQuote
marginOf(costInQuote, leverage) ==
  IF leverage > 1 THEN MulDiv(costInQuote, 1, leverage) ELSE costInQuote

\* variant: the debit is the full cost at every leverage
deductionOf_full(costInQuote, margin, leverage) == costInQuote

\* leverage > 1 ? margin : costInQuote
deductionOf(costInQuote, margin, leverage) ==
  IF leverage > 1 THEN margin ELSE costInQuote

\* variant: the debit needs more than the margin
canDebit_strict(availableQuote, margin) == availableQuote > margin

\* availableQuote >= margin, the guard of the debit
canDebit(availableQuote, margin) == availableQuote >= margin

\* the binary exponent of a positive double: e with 2^e <= x < 2^(e+1)
RECURSIVE binade(_)
binade(x) ==
  IF x >= 2 * Unit THEN binade(x \div 2) + 1
  ELSE IF x < Unit THEN binade(2 * x) - 1
  ELSE 0

\* availableQuote += missing adds two doubles, the second one the rounded
\* difference costInQuote - availableQuote.  The sum is costInQuote unless
\* both roundings hit a tie, which takes a difference with the exponent of
\* costInQuote and an availableQuote with a smaller one; the sum is then
\* costInQuote or the double just below, one ulp that the grid cannot show.
\* The number of ulps the sum falls short is an input of the order (1 with
\* 1820.65 EUR held and a cost of 0.09 * 67000 / 0.92)
sumShortfalls(availableQuote, costInQuote) ==
  IF /\ availableQuote > 0
     /\ availableQuote < costInQuote
     /\ binade(costInQuote - availableQuote) = binade(costInQuote)
     /\ binade(availableQuote) < binade(costInQuote)
  THEN {0, 1}
  ELSE {0}

\* the auto-conversion block: what it leaves in holdings.USD, availableQuote
\* and convertedFromUsd; short tells that availableQuote is an ulp below the
\* grid value
convertFromUsd(holdings, quote, quoteUsd, costInQuote, ulps) ==
  LET availableQuote == Get(holdings, quote)
      missing        == costInQuote - availableQuote
      neededUsd      == MulDiv(missing, quoteUsd, Unit)
      none           == [holdings |-> holdings, availableQuote |-> availableQuote,
                         short |-> FALSE, convertedFromUsd |-> 0]
  IN  IF availableQuote < costInQuote
      THEN IF quote # "USD" /\ Get(holdings, "USD") > 0
           THEN IF holdings["USD"] >= neededUsd
                THEN [holdings |-> Put(holdings, "USD", roundBalance(holdings["USD"] - neededUsd)),
                      availableQuote |-> availableQuote + missing,
                      short |-> ulps > 0,
                      convertedFromUsd |-> neededUsd]
                ELSE none
           ELSE none
      ELSE none

\* variant: the position is looked up by symbol alone
findPosition_anySide(positions, symbol, side) ==
  LET hits == {i \in 1..Len(positions) : positions[i].symbol = symbol}
  IN  IF hits = {} THEN 0 ELSE CHOOSE i \in hits : \A j \in hits : i <= j

\* session.positions.find(...): its index, 0 when there is none
findPosition(positions, symbol, side) ==
  LET hits == {i \in 1..Len(positions) :
                 positions[i].symbol = symbol /\ positions[i].side = side}
  IN  IF hits = {} THEN 0 ELSE CHOOSE i \in hits : \A j \in hits : i <= j

\* variant: the plain mean of the two prices
mergedEntryPrice_mean(entryPrice, quantity, pairPrice, size) ==
  entryPrice + (pairPrice - entryPrice) \div 2

\* roundPrice((entryPrice * quantity + pairPrice * size) / totalQty)
mergedEntryPrice(entryPrice, quantity, pairPrice, size) ==
  entryPrice + MulDivUp(pairPrice - entryPrice, size, quantity + size)

\* the merge branch
mergePosition(existing, pairPrice, size, leverage, margin) ==
  [existing EXCEPT
     !.entryPrice = mergedEntryPrice(existing.entryPrice, existing.quantity, pairPrice, size),
     !.quantity   = existing.quantity + size,
     !.leverage   = Max(existing.leverage, leverage),
     !.margin     = existing.margin + margin]

\* the push branch
newPosition(base, positionSide, pairPrice, size, leverage, margin) ==
  [symbol |-> base, side |-> positionSide, entryPrice |-> pairPrice,
   quantity |-> size, leverage |-> leverage, margin |-> margin,
   liquidated |-> FALSE]

Reply(error, pairPrice, convertedFromUsd) ==
  [error |-> error, pairPrice |-> pairPrice, convertedFromUsd |-> convertedFromUsd]

\* handleOrder: the session it leaves and the result it returns
handleOrder(session, order, ulps) ==
  LET prices    == session.market.prices
      baseUsd   == Get(prices, order.base)
      quoteUsd  == Get(prices, order.quote)
      pairPrice == pairPriceOf(baseUsd, quoteUsd)
      cost      == costInQuoteOf(order.size, baseUsd, quoteUsd)
      conv      == convertFromUsd(session.holdings, order.quote, quoteUsd, cost, ulps)
      available == conv.availableQuote
      margin    == marginOf(cost, order.leverage)
      debited   == IF canDebit(available, margin)
                   THEN Put(conv.holdings, order.quote,
                            roundBalance(available - deductionOf(cost, margin, order.leverage)))
                   ELSE conv.holdings
      side      == IF order.side = "buy" THEN "long" ELSE "short"
      at        == findPosition(session.positions, order.base, side)
      positions == IF at # 0
                   THEN [session.positions EXCEPT
                           ![at] = mergePosition(@, pairPrice, order.size, order.leverage, margin)]
                   ELSE Append(session.positions,
                               newPosition(order.base, side, pairPrice, order.size,
                                           order.leverage, margin))
  IN  IF baseUsd = 0 \/ quoteUsd = 0
      THEN [session |-> session, result |-> Reply("Pair not supported", 0, 0)]
      ELSE IF (available < cost \/ (available = cost /\ conv.short)) /\ order.leverage = 1
      THEN [session |-> [session EXCEPT !.holdings = conv.holdings],
            result  |-> Reply("Insufficient balance for spot trade", 0, 0)]
      ELSE IF order.leverage > 1 /\ available < margin
      THEN [session |-> [session EXCEPT !.holdings = conv.holdings],
            result  |-> Reply("Insufficient margin for leveraged trade", 0, 0)]
      ELSE [session |-> [session EXCEPT !.holdings = debited, !.positions = positions],
            result  |-> Reply("", pairPrice, conv.convertedFromUsd)]

-----------------------------------------------------------------------------
(* Sessions *)

startingBalanceOf(mode) ==
  IF mode = "Admin" THEN 10000 * Unit
  ELSE IF mode = "Whale" THEN 25000 * Unit
  ELSE 1000 * Unit

buildInitialMarket(difficulty, priceProvider, snapshots) ==
  LET snapshot   == snapshots[priceProvider]
      basePrices == IF difficulty = "Real-World" THEN snapshot ELSE initialSeedPrices
  IN  [prices |-> basePrices]

createBots_broke(startingBalance) ==
  [i \in 1..NumBots |-> [balance |-> 0, realizedPnl |-> 0, unrealizedPnl |-> 0]]

\* createBots: one bot per name of botNames
createBots(startingBalance) ==
  [i \in 1..NumBots |->
     [balance |-> startingBalance, realizedPnl |-> 0, unrealizedPnl |-> 0]]

createSession(payload, snapshots) ==
  LET priceProvider == IF payload.priceProvider \in priceProviders
                       THEN payload.priceProvider ELSE "internal"
  IN  [difficulty    |-> payload.difficulty,
       mode          |-> payload.mode,
       priceProvider |-> priceProvider,
       holdings      |-> [k \in {"USD"} |-> startingBalanceOf(payload.mode)],
       positions     |-> <<>>,
       realizedPnl   |-> 0,
       unrealizedPnl |-> 0,
       bots          |-> createBots(startingBalanceOf(payload.mode)),
       faucetClaimed |-> FALSE,
       market        |-> buildInitialMarket(payload.difficulty, priceProvider, snapshots)]

\* variant: the push moves every price by one grid step
emitSession_repriced(session) ==
  [markToMarket(session) EXCEPT !.market.prices = [a \in DOMAIN @ |-> @[a] + 1]]

\* emitSession: the session after its markToMarket (the push carries it)
emitSession(session) == markToMarket(session)

-----------------------------------------------------------------------------
(* Prices *)

\* variant: Hard steps up when roll > 0.35
driftFactor_up(difficulty, bias, roll, rnd) ==
  IF difficulty = "Easy"
  THEN Million + (rnd * 4 + 1000 + bias)
  ELSE IF difficulty = "Medium"
  THEN LET direction == IF roll > 550 THEN 1 ELSE -1
       IN  Million + direction * (rnd * 6 + 2000 + Abs(bias))
  ELSE IF difficulty = "Hard"
  THEN LET direction == IF roll > 350 THEN 1 ELSE -1
       IN  Million + direction * (rnd * 8 + 3000 + Abs(bias))
  ELSE Million

\* applyDifficultyDrift(price, difficulty, bias) / price, in millionths; roll
\* and rnd are its two Math.random() draws in thousandths, bias is in
\* millionths
driftFactor(difficulty, bias, roll, rnd) ==
  IF difficulty = "Easy"
  THEN Million + (rnd * 4 + 1000 + bias)
  ELSE IF difficulty = "Medium"
  THEN LET direction == IF roll > 550 THEN 1 ELSE -1
       IN  Million + direction * (rnd * 6 + 2000 + Abs(bias))
  ELSE IF difficulty = "Hard"
  THEN LET direction == IF roll > 350 THEN -1 ELSE 1
       IN  Million + direction * (rnd * 8 + 3000 + Abs(bias))
  ELSE Million

RECURSIVE biasSum(_, _, _)
biasSum(positions, asset, n) ==
  IF n = 0 THEN 0
  ELSE biasSum(positions, asset, n - 1)
       + (IF positions[n].symbol = asset
          THEN (IF positions[n].side = "long" THEN -2000 ELSE 2000)
          ELSE 0)

\* the exposure bias of tick, in millionths
biasOf(positions, asset) == biasSum(positions, asset, Len(positions))

\* one asset's step in the session loop of tick
nextPriceOf(session, asset, snapshots, draw) ==
  LET current == session.market.prices[asset]
      fromFeed == Get(snapshots[session.priceProvider], asset)
      factor   == driftFactor(session.difficulty, biasOf(session.positions, asset),
                              draw[1], draw[2])
  IN  IF current = 0 THEN current
      ELSE IF session.difficulty = "Real-World"
      THEN Max(MinPrice, roundPrice(IF fromFeed # 0 THEN fromFeed ELSE current, 1, 1))
      ELSE Max(MinPrice, roundPrice(current, factor, Million))

\* updateBots at the session's prices; rnd is the Math.random() of delta, in
\* thousandths, the same for every bot, and the symbol each bot draws is BTC
updateBots(session, rnd) ==
  LET delta == MulDiv(rnd, 20 * Unit, 1000) - 10 * Unit
  IN  IF Get(session.market.prices, "BTC") = 0 THEN session.bots
      ELSE [i \in 1..Len(session.bots) |->
              [balance       |-> roundBalance(session.bots[i].balance + delta),
               realizedPnl   |-> roundBalance(session.bots[i].realizedPnl + delta),
               unrealizedPnl |-> 0]]

\* variant: the loop body without its markToMarket
tickSession_unmarked(session, snapshots, draws) ==
  LET prices == [a \in DOMAIN session.market.prices |->
                   nextPriceOf(session, a, snapshots, draws[a])]
      priced == [session EXCEPT !.market.prices = prices]
  IN  [priced EXCEPT !.bots = updateBots(priced, draws["BTC"][2])]

\* the body of the session loop of tick, for one session; the draw of
\* updateBots is the second one the pattern gives for BTC
tickSession(session, snapshots, draws) ==
  LET prices == [a \in DOMAIN session.market.prices |->
                   nextPriceOf(session, a, snapshots, draws[a])]
      priced == [session EXCEPT !.market.prices = prices]
  IN  markToMarket([priced EXCEPT !.bots = updateBots(priced, draws["BTC"][2])])

\* the session loop of tick
tickSessions(registry, sockets, snapshots, draws) ==
  [c \in DOMAIN registry |->
     IF c \in sockets THEN tickSession(registry[c], snapshots, draws[c]) ELSE registry[c]]

\* the market_update pushes of one session loop
marketUpdates(registry, sockets) ==
  {<<c, "market_update">> : c \in DOMAIN registry \cap sockets}

\* mutateInternalSnapshot merged over the seeds; r[symbol] is Math.random()
\* in thousandths
refreshInternal(snapshot, r) ==
  Merge(initialSeedPrices,
        [a \in DOMAIN snapshot |->
           roundPrice(Max(MinPrice, MulDiv(snapshot[a], Million + (r[a] * 10 - 5000), Million)), 1, 1)])

requestedProviders_all(registry) == {registry[c].priceProvider : c \in DOMAIN registry}

\* the providers tick collects
requestedProviders(registry) ==
  {registry[c].priceProvider : c \in {d \in DOMAIN registry : registry[d].difficulty = "Real-World"}}

-----------------------------------------------------------------------------
(* Candles *)

Min(a, b) == IF a <= b THEN a ELSE b

\* Math.sin(i) * 0.01 for i = 0..29, in millionths
sinBias ==
  <<0, 8415, 9093, 1411, -7568, -9589, -2794, 6570, 9894, 4121,
    -5440, -10000, -5366, 4202, 9906, 6503, -2879, -9614, -7510, 1499,
    9129, 8367, -89, -8462, -9056, -1324, 7626, 9564, 2709, -6636>>

Candle(time, open, high, low, close) ==
  [time |-> time, open |-> open, high |-> high, low |-> low, close |-> close]

\* generateInitialCandles(price) called at time t; base is carried on the
\* price grid
generateInitialCandles(price, t) ==
  [k \in 1..InitialCandles |->
     LET i    == k - 1
         base == MulDiv(price, Million + sinBias[k], Million)
     IN  Candle(t - (InitialCandles - i) * TICK_MS,
                roundPrice(base, 997, 1000), roundPrice(base, 1010, 1000),
                roundPrice(base, 990, 1000), roundPrice(base, 1003, 1000))]

\* variant: the list is never cut
updateCandles_uncut(candleList, newPrice, t) ==
  LET n == Len(candleList)
  IN  IF n = 0 \/ t - candleList[n].time > TICK_MS * 2
      THEN Append(candleList, Candle(t, newPrice, newPrice, newPrice, newPrice))
      ELSE [candleList EXCEPT ![n] = [@ EXCEPT !.close = newPrice,
                                                !.high = Max(@, newPrice),
                                                !.low = Min(@, newPrice)]]

\* updateCandles for one symbol's list, called at time t
updateCandles(candleList, newPrice, t) ==
  LET n       == Len(candleList)
      updated == IF n = 0 \/ t - candleList[n].time > TICK_MS * 2
                 THEN Append(candleList, Candle(t, newPrice, newPrice, newPrice, newPrice))
                 ELSE [candleList EXCEPT ![n] = [@ EXCEPT !.close = newPrice,
                                                          !.high = Max(@, newPrice),
                                                          !.low = Min(@, newPrice)]]
  IN  IF Len(updated) > MaxCandles THEN Tail(updated) ELSE updated

-----------------------------------------------------------------------------
(* Inputs *)

Leverages == {1, 2, 5, 10, 200}

Order(base, quote, side, size, leverage) ==
  [base |-> base, quote |-> quote, side |-> side, size |-> size, leverage |-> leverage]

\* 0.01, the size the order form starts with
Lot == Unit \div 100

\* place_order payloads: 0.01 BTC against USD or EUR on either side at every
\* leverage, a double-sized spot buy, a leveraged buy against EUR and a
\* larger spot buy to follow it, a buy that spends 1000 USD exactly and one
\* that spends the 10 USD of the faucet, and a symbol the server does not
\* track
Orders ==
  {Order("BTC", quote, side, Lot, leverage) :
     quote \in {"USD", "EUR"}, side \in {"buy", "sell"}, leverage \in Leverages}
  \cup {Order("BTC", "USD", "buy", 2 * Lot, 1),
        Order("BTC", "EUR", "buy", 5 * Lot, 2),
        Order("BTC", "EUR", "buy", 9 * Lot, 1),
        Order("USD", "USD", "buy", 1000 * Unit, 1),
        Order("USD", "USD", "buy", 10 * Unit, 1),
        Order("DOGE", "USD", "buy", Lot, 1)}

NoOrder == [base |-> "", quote |-> "", side |-> "", size |-> 0, leverage |-> 0]

Payload(difficulty, mode, priceProvider) ==
  [difficulty |-> difficulty, mode |-> mode, priceProvider |-> priceProvider]

\* start_game payloads: every difficulty, mode and provider occurs
Payloads ==
  {Payload("Easy", "EZ-Mode", "internal"), Payload("Medium", "Admin", "internal"),
   Payload("Hard", "Whale", "internal"), Payload("Real-World", "Admin", "binance"),
   Payload("Real-World", "EZ-Mode", "coingecko"), Payload("Real-World", "Whale", "internal")}

\* the two Math.random() draws of applyDifficultyDrift, in thousandths, for
\* each asset of one session in one tick
DrawPatterns ==
  {[a \in Assets |-> <<200, 0>>], [a \in Assets |-> <<800, 999>>],
   [a \in Assets |-> IF a = "BTC" THEN <<200, 999>> ELSE <<800, 0>>]}

\* the draws of one session loop: sessions that draw nothing get the first
\* pattern
SessionDraws(registry) ==
  {d \in [DOMAIN registry -> DrawPatterns] :
     \A c \in DOMAIN registry :
       registry[c].difficulty = "Real-World" => d[c] = [a \in Assets |-> <<200, 0>>]}

\* the Math.random() draw of mutateInternalSnapshot, in thousandths, for
\* each asset
InternalPatterns == {[a \in Assets |-> 0], [a \in Assets |-> 999]}

InternalDraws(requested) ==
  IF "internal" \in requested THEN InternalPatterns ELSE {[a \in Assets |-> 0]}

\* what an external feed may report for BTC: prices on and around the
\* liquidation prices of a position opened at 67000, and values that are not
\* prices (Number(null) is 0)
FeedPrices == {33500 * Unit, 60300 * Unit, 66665 * Unit, 67000 * Unit,
               100500 * Unit, 0, -Unit}

\* what a fetch keeps of a reported value: fetchBinanceSnapshot any finite
\* number, fetchCoingeckoSnapshot any truthy one
keptPrices(provider) ==
  IF provider = "binance" THEN FeedPrices ELSE FeedPrices \ {0}

\* the price map a fetch obtains: empty when no symbol could be read, and the
\* fetch then throws
FeedResults(provider) ==
  {[a \in {} |-> 0]} \cup UNION {[feedAssets[provider] -> keptPrices(provider)]}

-----------------------------------------------------------------------------
(* The server *)

\* the last place_order message of the connection's current game and what its
\* handler did with it: whether the callback was called, with what, and the
\* position handleOrder wrote, and what the handler sent to the socket, in
\* the order it sent it
Event(socket, order, acked, result, fill, sent) ==
  [socket |-> socket, order |-> order, acked |-> acked, result |-> result, fill |-> fill,
   sent |-> sent]

NoEvent == Event("", NoOrder, FALSE, Reply("", 0, 0), <<>>, <<>>)

orderOutputs_ackFirst(known) == IF known THEN <<"ack", "session_update">> ELSE <<>>

\* what the place_order handler sends: nothing without a session, otherwise
\* the push of emitSession and then the callback
orderOutputs(known) == IF known THEN <<"session_update", "ack">> ELSE <<>>

\* no session loop in this step
NoDraws == [c \in {} |-> 0]

Remove_all(object, key) == [k \in {} |-> object[k]]

Remove_keep(object, key) == object

Remove(object, key) == [k \in DOMAIN object \ {key} |-> object[k]]

nOps == nGames + nOrders + nTicks

\* the client once App is mounted and its effect has run: the socket is being
\* connected, no start is pending, no deferredStart listens for 'connect';
\* requests counts the user's start actions, sent the start_game messages
\* emitted, connects the 'connect' events
mountedClient ==
  [mounted |-> TRUE, connected |-> FALSE, pending |-> FALSE, listeners |-> 0,
   requests |-> 0, sent |-> 0, connects |-> 0]

Init ==
  /\ sessions = [c \in {} |-> 0]
  /\ priceSnapshots = [p \in priceProviders |-> initialSeedPrices]
  /\ connected = {}
  /\ pendingTicks = <<>>
  /\ nGames = 0
  /\ nTicks = 0
  /\ nOrders = 0
  /\ last = NoEvent
  /\ emitted = {}
  /\ candles = <<>>
  /\ now = 0
  /\ drawn = NoDraws
  /\ client = mountedClient

Connect(c) ==
  /\ c \notin connected
  /\ connected' = connected \cup {c}
  /\ emitted' = {}
  /\ drawn' = NoDraws
  /\ UNCHANGED <<sessions, priceSnapshots, pendingTicks, nGames, nTicks, nOrders, last, candles,
                 now, client>>

Disconnect(c) ==
  /\ c \in connected
  /\ connected' = connected \ {c}
  /\ sessions' = Remove(sessions, c)
  /\ last' = NoEvent
  /\ emitted' = {}
  /\ drawn' = NoDraws
  /\ UNCHANGED <<priceSnapshots, pendingTicks, nGames, nTicks, nOrders, candles, now, client>>

\* variant: a connection that has a session keeps its positions
StartGame_kept(c, payload) ==
  /\ c \in connected
  /\ nOps < MaxOps
  /\ nGames' = nGames + 1
  /\ LET fresh == createSession(payload, priceSnapshots)
     IN  sessions' = Put(sessions, c,
                         emitSession(IF c \in DOMAIN sessions
                                     THEN [fresh EXCEPT !.positions = sessions[c].positions]
                                     ELSE fresh))
  /\ last' = NoEvent
  /\ emitted' = {<<c, "session_update">>}
  /\ drawn' = NoDraws
  /\ UNCHANGED <<priceSnapshots, connected, pendingTicks, nTicks, nOrders, candles, now, client>>

StartGame(c, payload) ==
  /\ c \in connected
  /\ nOps < MaxOps
  /\ nGames' = nGames + 1
  /\ sessions' = Put(sessions, c, emitSession(createSession(payload, priceSnapshots)))
  /\ last' = NoEvent
  /\ emitted' = {<<c, "session_update">>}
  /\ drawn' = NoDraws
  /\ UNCHANGED <<priceSnapshots, connected, pendingTicks, nTicks, nOrders, candles, now, client>>

\* the position handleOrder has written for the order, if any
fillOf(executed, order) ==
  LET side == IF order.side = "buy" THEN "long" ELSE "short"
      at   == findPosition(executed.session.positions, order.base, side)
  IN  IF executed.result.error = "" /\ at # 0
      THEN <<executed.session.positions[at]>> ELSE <<>>

\* the rounding outcomes of the order's conversion, if it converts
orderShortfalls(session, order) ==
  LET prices   == session.market.prices
      baseUsd  == Get(prices, order.base)
      quoteUsd == Get(prices, order.quote)
      cost     == costInQuoteOf(order.size, baseUsd, quoteUsd)
  IN  IF baseUsd = 0 \/ quoteUsd = 0 THEN {0}
      ELSE IF convertFromUsd(session.holdings, order.quote, quoteUsd, cost, 0).convertedFromUsd > 0
      THEN sumShortfalls(Get(session.holdings, order.quote), cost)
      ELSE {0}

PlaceOrder(c, order) ==
  /\ c \in connected
  /\ nOrders < MaxOrders /\ nOps < MaxOps
  /\ nOrders' = nOrders + 1
  /\ IF c \notin DOMAIN sessions
     THEN /\ sessions' = sessions
          /\ last' = Event(c, order, FALSE, Reply("", 0, 0), <<>>, orderOutputs(FALSE))
          /\ emitted' = {}
     ELSE \E ulps \in orderShortfalls(sessions[c], order) :
            LET executed == handleOrder(sessions[c], order, ulps)
            IN  /\ sessions' = Put(sessions, c, emitSession(markToMarket(executed.session)))
                /\ last' = Event(c, order, TRUE, executed.result,
                                 fillOf(executed, order), orderOutputs(TRUE))
                /\ emitted' = {<<c, "session_update">>}
  /\ drawn' = NoDraws
  /\ UNCHANGED <<priceSnapshots, connected, pendingTicks, nGames, nTicks, candles, now, client>>

\* variant: the grant is given again whenever USD is used up
ClaimFaucet_again(c) ==
  /\ c \in connected
  /\ IF c \in DOMAIN sessions /\ sessions[c].holdings["USD"] <= 0
     THEN /\ sessions' = Put(sessions, c,
               emitSession([sessions[c] EXCEPT !.holdings = Put(@, "USD", 10 * Unit),
                                               !.faucetClaimed = TRUE]))
          /\ emitted' = {<<c, "session_update">>}
     ELSE /\ sessions' = sessions
          /\ emitted' = {}
  /\ drawn' = NoDraws
  /\ UNCHANGED <<priceSnapshots, connected, pendingTicks, nGames, nTicks, nOrders, last, candles,
                 now, client>>

ClaimFaucet(c) ==
  /\ c \in connected
  /\ IF c \in DOMAIN sessions /\ ~sessions[c].faucetClaimed /\ sessions[c].holdings["USD"] <= 0
     THEN /\ sessions' = Put(sessions, c,
               emitSession([sessions[c] EXCEPT !.holdings = Put(@, "USD", 10 * Unit),
                                               !.faucetClaimed = TRUE]))
          /\ emitted' = {<<c, "session_update">>}
     ELSE /\ sessions' = sessions
          /\ emitted' = {}
  /\ drawn' = NoDraws
  /\ UNCHANGED <<priceSnapshots, connected, pendingTicks, nGames, nTicks, nOrders, last, candles,
                 now, client>>

\* tick up to its await: the providers are collected and the refreshes
\* start; the internal refresh is synchronous, and with no external refresh
\* to wait for the session loop follows at once
Tick ==
  /\ nTicks < MaxTicks /\ nOps < MaxOps
  /\ nTicks' = nTicks + 1
  /\ \E r \in InternalDraws(requestedProviders(sessions)), draws \in SessionDraws(sessions) :
       LET requested == requestedProviders(sessions)
           refreshed == IF "internal" \in requested
                        THEN [priceSnapshots EXCEPT !["internal"] = refreshInternal(@, r)]
                        ELSE priceSnapshots
           awaited   == requested \cap externalProviders
       IN  /\ priceSnapshots' = refreshed
           /\ IF awaited = {}
              THEN /\ sessions' = tickSessions(sessions, connected, refreshed, draws)
                   /\ emitted' = marketUpdates(sessions, connected)
                   /\ drawn' = draws
                   /\ pendingTicks' = pendingTicks
              ELSE /\ Len(pendingTicks) < MaxInFlight
                   /\ sessions' = sessions
                   /\ emitted' = {}
                   /\ drawn' = NoDraws
                   /\ pendingTicks' = Append(pendingTicks, awaited)
  /\ UNCHANGED <<connected, nGames, nOrders, last, candles, now, client>>

\* the fetch that threw, caught in refreshProviderSnapshot
fetchFailures(provider, fetched) ==
  IF DOMAIN fetched = {} THEN {<<provider, "fetch_failed">>} ELSE {}

\* one external refresh of the i-th tick in flight completes; when it was the
\* last one awaited, that tick runs its session loop
RefreshDone(i, provider) ==
  /\ i \in 1..Len(pendingTicks)
  /\ provider \in pendingTicks[i]
  /\ \E fetched \in FeedResults(provider), draws \in SessionDraws(sessions) :
       LET refreshed == IF DOMAIN fetched # {}
                        THEN [priceSnapshots EXCEPT ![provider] = Merge(initialSeedPrices, fetched)]
                        ELSE priceSnapshots
           awaited   == pendingTicks[i] \ {provider}
       IN  /\ priceSnapshots' = refreshed
           /\ IF awaited = {}
              THEN /\ sessions' = tickSessions(sessions, connected, refreshed, draws)
                   /\ emitted' = marketUpdates(sessions, connected)
                                    \cup fetchFailures(provider, fetched)
                   /\ drawn' = draws
                   /\ pendingTicks' = SubSeq(pendingTicks, 1, i - 1)
                                      \o SubSeq(pendingTicks, i + 1, Len(pendingTicks))
              ELSE /\ sessions' = sessions
                   /\ emitted' = fetchFailures(provider, fetched)
                   /\ drawn' = NoDraws
                   /\ pendingTicks' = [pendingTicks EXCEPT ![i] = awaited]
  /\ UNCHANGED <<connected, nGames, nTicks, nOrders, last, candles, now, client>>

Next ==
  \/ \E c \in Sockets : Connect(c)
  \/ \E c \in Sockets : Disconnect(c)
  \/ \E c \in Sockets, payload \in Payloads : StartGame(c, payload)
  \/ \E c \in Sockets, order \in Orders : PlaceOrder(c, order)
  \/ \E c \in Sockets : ClaimFaucet(c)
  \/ Tick
  \/ \E i \in 1..MaxInFlight, provider \in externalProviders : RefreshDone(i, provider)

Spec == Init /\ [][Next]_vars

\* the server with two connections, each with a few payloads: what the
\* sessions share (the snapshots, the ticks) and what they do not
Fleet == {"s1", "s2"}

FleetPayloads ==
  {Payload("Easy", "EZ-Mode", "internal"), Payload("Real-World", "Admin", "binance"),
   Payload("Real-World", "Admin", "internal")}

\* the second order carries a leverage the order form's range excludes, the
\* third the smallest size it allows
FleetOrders ==
  {Order("BTC", "USD", "buy", Lot, 2), Order("BTC", "USD", "buy", Lot, 1000),
   Order("BTC", "USD", "buy", 0, 1)}

FleetNext ==
  \/ \E c \in Fleet : Connect(c)
  \/ \E c \in Fleet : Disconnect(c)
  \/ \E c \in Fleet, payload \in FleetPayloads : StartGame(c, payload)
  \/ \E c \in Fleet, order \in FleetOrders : PlaceOrder(c, order)
  \/ \E c \in Fleet : ClaimFaucet(c)
  \/ Tick
  \/ \E i \in 1..MaxInFlight, provider \in externalProviders : RefreshDone(i, provider)

FleetSpec == Init /\ [][FleetNext]_vars

\* the candle list of one symbol of one session, from createSession on and
\* through the updateCandles calls of its ticks
CandleEpoch == InitialCandles * TICK_MS

\* the time from one session loop to the next: the interval, or more when
\* the loop waited for a refresh
Elapsed == {TICK_MS, 2 * TICK_MS, 2 * TICK_MS + 1}

CandlePrices == {66000 * Unit, 68000 * Unit}

\* the list after n more updates that each come 2 * TICK_MS + 1 after the
\* one before, the first of them at time t: each opens a candle, and none is
\* dropped while the list holds no more than MaxCandles
agedCandles(candleList, price, t, n) ==
  candleList \o [k \in 1..n |->
                   Candle(t + (k - 1) * (2 * TICK_MS + 1), price, price, price, price)]

\* how many updates the list has behind it when it is first looked at
CandleAges == {0, MaxCandles - InitialCandles - 1, MaxCandles - InitialCandles}

CandleInit ==
  /\ sessions = [c \in {} |-> 0]
  /\ priceSnapshots = [p \in priceProviders |-> initialSeedPrices]
  /\ connected = {}
  /\ pendingTicks = <<>>
  /\ nGames = 0
  /\ nTicks = 0
  /\ nOrders = 0
  /\ last = NoEvent
  /\ emitted = {}
  /\ drawn = NoDraws
  /\ client = mountedClient
  /\ \E n \in CandleAges :
       /\ candles = agedCandles(generateInitialCandles(initialSeedPrices["BTC"], CandleEpoch),
                                initialSeedPrices["BTC"], CandleEpoch + 2 * TICK_MS + 1, n)
       /\ now = CandleEpoch + n * (2 * TICK_MS + 1)

\* the updateCandles call of one session loop for the symbol
CandleTick(elapsed, newPrice) ==
  /\ nTicks < MaxCandleTicks
  /\ nTicks' = nTicks + 1
  /\ now' = now + elapsed
  /\ candles' = updateCandles(candles, newPrice, now')
  /\ UNCHANGED <<sessions, priceSnapshots, connected, pendingTicks, nGames, nOrders, last,
                 emitted, drawn, client>>

CandleNext == \E elapsed \in Elapsed, newPrice \in CandlePrices : CandleTick(elapsed, newPrice)

CandleSpec == CandleInit /\ [][CandleNext]_vars

-----------------------------------------------------------------------------
(* The market of a session with its candles and its order book *)

\* Spec and FleetSpec follow a session's market by its prices alone.
\* MarketSpec follows all three fields of session.market, for one connection,
\* with the clock the candle times are read from.

\* buildOrderBook(prices); rnd is the Math.random() of a level's size, in
\* thousandths, the same for every level of the book
buildOrderBook(prices, rnd) ==
  [symbol \in {k \in DOMAIN prices : prices[k] # 0} |->
     [bids |-> [k \in 1..BookLevels |->
                  [price |-> roundPrice(prices[symbol], 10000 - 15 * k, 10000),
                   size  |-> roundPrice(rnd, 2 * Unit, 1000)]],
      asks |-> [k \in 1..BookLevels |->
                  [price |-> roundPrice(prices[symbol], 10000 + 15 * k, 10000),
                   size  |-> roundPrice(rnd, 2 * Unit, 1000)]]]]

\* buildInitialMarket called at time t, with the candles and the order book
buildInitialCharts(market, t, rnd) ==
  [prices    |-> market.prices,
   candles   |-> [a \in Assets |-> generateInitialCandles(market.prices[a], t)],
   orderBook |-> buildOrderBook(market.prices, rnd)]

\* variant: the loop keeps the order book it had
chartSession_stale(before, after, t, rnd) ==
  LET prices  == after.market.prices
      charted == [a \in Assets |->
                    IF before.market.prices[a] # 0
                    THEN updateCandles(before.market.candles[a], prices[a], t)
                    ELSE before.market.candles[a]]
  IN  [after EXCEPT !.market.candles = charted]

\* what the loop body of tick does to the candles and the order book of a
\* session, at time t: before is the session the loop found, after the one
\* it leaves
chartSession(before, after, t, rnd) ==
  LET prices  == after.market.prices
      charted == [a \in Assets |->
                    IF before.market.prices[a] # 0
                    THEN updateCandles(before.market.candles[a], prices[a], t)
                    ELSE before.market.candles[a]]
      book    == buildOrderBook(prices, rnd)
  IN  [after EXCEPT !.market.candles = charted, !.market.orderBook = book]

\* the session loop of tick at time t, on sessions with their whole market
chartSessions(registry, sockets, snapshots, draws, t) ==
  [c \in DOMAIN registry |->
     IF c \in sockets
     THEN LET after == tickSession(registry[c], snapshots, draws[c])
          IN  chartSession(registry[c], after, t, draws[c]["BTC"][2])
     ELSE registry[c]]

\* the Math.random() of the order book sizes of a new session, in thousandths
BookDraws == {0, 999}

MarketPayloads ==
  {Payload("Easy", "EZ-Mode", "internal"), Payload("Real-World", "Admin", "binance")}

MarketOrders ==
  {Order("BTC", "USD", "buy", Lot, 2), Order("BTC", "USD", "sell", Lot, 5),
   Order("DOGE", "USD", "buy", Lot, 1)}

\* the time an external refresh takes
Latency == {1, TICK_MS}

MarketStartGame(c, payload) ==
  /\ c \in connected
  /\ nOps < MaxMarketOps
  /\ nGames' = nGames + 1
  /\ \E rnd \in BookDraws :
       LET session == createSession(payload, priceSnapshots)
           charted == [session EXCEPT !.market = buildInitialCharts(@, now, rnd)]
       IN  sessions' = Put(sessions, c, emitSession(charted))
  /\ last' = NoEvent
  /\ emitted' = {<<c, "session_update">>}
  /\ drawn' = NoDraws
  /\ UNCHANGED <<priceSnapshots, connected, pendingTicks, nTicks, nOrders, candles, now, client>>

\* tick, elapsed after the step before it
MarketTick(elapsed) ==
  /\ nTicks < MaxTicks /\ nOps < MaxMarketOps
  /\ nTicks' = nTicks + 1
  /\ now' = now + elapsed
  /\ \E r \in InternalDraws(requestedProviders(sessions)), draws \in SessionDraws(sessions) :
       LET requested == requestedProviders(sessions)
           refreshed == IF "internal" \in requested
                        THEN [priceSnapshots EXCEPT !["internal"] = refreshInternal(@, r)]
                        ELSE priceSnapshots
           awaited   == requested \cap externalProviders
       IN  /\ priceSnapshots' = refreshed
           /\ IF awaited = {}
              THEN /\ sessions' = chartSessions(sessions, connected, refreshed, draws, now')
                   /\ emitted' = marketUpdates(sessions, connected)
                   /\ drawn' = draws
                   /\ pendingTicks' = pendingTicks
              ELSE /\ Len(pendingTicks) < MaxInFlight
                   /\ sessions' = sessions
                   /\ emitted' = {}
                   /\ drawn' = NoDraws
                   /\ pendingTicks' = Append(pendingTicks, awaited)
  /\ UNCHANGED <<connected, nGames, nOrders, last, candles, client>>

\* variant: what the feed leaves out keeps the value the snapshot had
refreshedSnapshot_cached(previous, fetched) == Merge(previous, fetched)

\* the snapshot a successful external refresh stores
refreshedSnapshot(previous, fetched) == Merge(initialSeedPrices, fetched)

\* what an external refresh logs: the failure of a fetch that threw and
\* otherwise the update, here with the prices it read; others tells that the
\* feed reported an asset outside Assets
refreshOutputs(provider, fetched, others) ==
  IF DOMAIN fetched = {} /\ ~others
  THEN {<<provider, "fetch_failed">>}
  ELSE {<<provider, "snapshot_updated", fetched>>}

\* an external refresh completes, latency after the step before it; the
\* feed may report assets outside Assets and none of Assets
MarketRefreshDone(i, provider, latency, others) ==
  /\ i \in 1..Len(pendingTicks)
  /\ provider \in pendingTicks[i]
  /\ now' = now + latency
  /\ \E fetched \in FeedResults(provider), draws \in SessionDraws(sessions) :
       LET refreshed == IF DOMAIN fetched # {} \/ others
                        THEN [priceSnapshots EXCEPT ![provider] = refreshedSnapshot(@, fetched)]
                        ELSE priceSnapshots
           awaited   == pendingTicks[i] \ {provider}
       IN  /\ others => DOMAIN fetched = {}
           /\ priceSnapshots' = refreshed
           /\ IF awaited = {}
              THEN /\ sessions' = chartSessions(sessions, connected, refreshed, draws, now')
                   /\ emitted' = marketUpdates(sessions, connected)
                                    \cup refreshOutputs(provider, fetched, others)
                   /\ drawn' = draws
                   /\ pendingTicks' = SubSeq(pendingTicks, 1, i - 1)
                                      \o SubSeq(pendingTicks, i + 1, Len(pendingTicks))
              ELSE /\ sessions' = sessions
                   /\ emitted' = refreshOutputs(provider, fetched, others)
                   /\ drawn' = NoDraws
                   /\ pendingTicks' = [pendingTicks EXCEPT ![i] = awaited]
  /\ UNCHANGED <<connected, nGames, nTicks, nOrders, last, candles, client>>

MarketNext ==
  \/ \E c \in Sockets : Connect(c)
  \/ \E c \in Sockets : Disconnect(c)
  \/ \E c \in Sockets, payload \in MarketPayloads : MarketStartGame(c, payload)
  \/ \E c \in Sockets, order \in MarketOrders : nOps < MaxMarketOps /\ PlaceOrder(c, order)
  \/ \E c \in Sockets : ClaimFaucet(c)
  \/ \E elapsed \in Elapsed : MarketTick(elapsed)
  \/ \E i \in 1..MaxInFlight, provider \in externalProviders, latency \in Latency,
          others \in BOOLEAN :
       MarketRefreshDone(i, provider, latency, others)

MarketSpec == Init /\ [][MarketNext]_vars

-----------------------------------------------------------------------------
(* The client's start_game messages (App, src/unnamed/part_001) *)

\* socket.off('connect', pendingStartRef.current); pendingStartRef.current = null
dropPending(state) ==
  IF state.pending
  THEN [state EXCEPT !.pending = FALSE, !.listeners = @ - 1]
  ELSE state

\* handleStart: named tells whether playerName.trim() is not empty
handleStart(named) ==
  /\ client.mounted
  /\ client.requests < MaxStarts
  /\ client' = IF ~named THEN client
               ELSE IF client.connected
               THEN [client EXCEPT !.requests = @ + 1, !.sent = @ + 1]
               ELSE [dropPending(client) EXCEPT !.requests = @ + 1,
                                                !.pending = TRUE,
                                                !.listeners = @ + 1]
  /\ UNCHANGED <<sessions, priceSnapshots, connected, pendingTicks, nGames, nTicks, nOrders,
                 last, emitted, candles, now, drawn>>

\* the socket's 'connect' event, first connection or reconnection: it runs
\* handleConnect and every deferredStart registered with socket.on, and each
\* of these clears pendingStartRef and emits start_game
onConnect ==
  /\ client.mounted /\ ~client.connected
  /\ client.connects < MaxConnects
  /\ client' = [client EXCEPT !.connected = TRUE,
                              !.connects = @ + 1,
                              !.pending = IF client.listeners > 0 THEN FALSE ELSE @,
                              !.sent = @ + client.listeners]
  /\ UNCHANGED <<sessions, priceSnapshots, connected, pendingTicks, nGames, nTicks, nOrders,
                 last, emitted, candles, now, drawn>>

\* handleDisconnect; the socket then reconnects by itself
handleDisconnect ==
  /\ client.mounted /\ client.connected
  /\ client' = [dropPending(client) EXCEPT !.connected = FALSE]
  /\ UNCHANGED <<sessions, priceSnapshots, connected, pendingTicks, nGames, nTicks, nOrders,
                 last, emitted, candles, now, drawn>>

\* handleConnectError
handleConnectError ==
  /\ client.mounted /\ ~client.connected
  /\ client' = dropPending(client)
  /\ UNCHANGED <<sessions, priceSnapshots, connected, pendingTicks, nGames, nTicks, nOrders,
                 last, emitted, candles, now, drawn>>

\* the cleanup of the effect, when App is unmounted
cleanup ==
  /\ client.mounted
  /\ client' = [dropPending(client) EXCEPT !.mounted = FALSE, !.connected = FALSE]
  /\ UNCHANGED <<sessions, priceSnapshots, connected, pendingTicks, nGames, nTicks, nOrders,
                 last, emitted, candles, now, drawn>>

ClientNext ==
  \/ \E named \in BOOLEAN : handleStart(named)
  \/ onConnect
  \/ handleDisconnect
  \/ handleConnectError
  \/ cleanup

ClientSpec == Init /\ [][ClientNext]_vars

-----------------------------------------------------------------------------
(* Vocabulary of the properties *)

\* this step is the place_order handler running for connection c, which
\* has a session
OrderStep(c) == nOrders' = nOrders + 1 /\ last'.socket = c /\ last'.acked

\* this step runs the session loop of a tick
TickLoopStep ==
  \/ nTicks' = nTicks + 1 /\ pendingTicks' = pendingTicks
  \/ Len(pendingTicks') < Len(pendingTicks)

PositionSide(order) == IF order.side = "buy" THEN "long" ELSE "short"

SamePlace(p, q) == p.symbol = q.symbol /\ p.side = q.side

Holds(positions, p) == \E i \in 1..Len(positions) : positions[i] = p

HoldsAt(positions, symbol, side) ==
  \E i \in 1..Len(positions) : positions[i].symbol = symbol /\ positions[i].side = side

\* the position of the session at (symbol, side), which must exist
PositionAt(positions, symbol, side) ==
  positions[CHOOSE i \in 1..Len(positions) :
              positions[i].symbol = symbol /\ positions[i].side = side]

\* both prices of the order's pair are known to the session
Supported(session, order) ==
  Get(session.market.prices, order.base) # 0 /\ Get(session.market.prices, order.quote) # 0

\* size x pairPrice at the session's prices
OrderCost(session, order) ==
  MulDiv(order.size, Get(session.market.prices, order.base),
         Get(session.market.prices, order.quote))

\* the capital an order needs: its cost, divided by the leverage above 1
Required(session, order) ==
  IF order.leverage > 1
  THEN MulDiv(OrderCost(session, order), 1, order.leverage)
  ELSE OrderCost(session, order)

\* a non-negative amount rounded to 2 decimals
Round2(x) == ((x + 50) \div 100) * 100

\* entry / leverage, the distance from the entry price to the liquidation
\* price entry x (1 -+ 1/leverage), rounded up to the grid
LiquidationDistance(p) ==
  p.entryPrice \div p.leverage + (IF p.entryPrice % p.leverage > 0 THEN 1 ELSE 0)

\* the price is at or beyond the liquidation price of the position
Crossed(p, prices) ==
  IF p.side = "long"
  THEN p.entryPrice - Get(prices, p.symbol) >= LiquidationDistance(p)
  ELSE Get(prices, p.symbol) - p.entryPrice >= LiquidationDistance(p)

\* the positions the markToMarket of this step starts from: those of the
\* session, with the position the order has written when the step is an order
PreMark(c) ==
  IF nOrders' = nOrders + 1 /\ last'.fill # <<>>
  THEN SelectSeq(sessions[c].positions, LAMBDA p : ~SamePlace(p, last'.fill[1])) \o last'.fill
  ELSE sessions[c].positions

NoDuplicate(positions) ==
  \A i, j \in 1..Len(positions) : SamePlace(positions[i], positions[j]) => i = j

-----------------------------------------------------------------------------
(* Properties *)

\* C1: in every reachable state every amount in every session's holdings is
\* at least 0.
C1_HoldingsNonNegative ==
  \A c \in DOMAIN sessions :
    \A k \in DOMAIN sessions[c].holdings : sessions[c].holdings[k] >= 0

\* a session that spent its whole balance on a position and took the faucet
C1_Witness ==
  \E c \in DOMAIN sessions :
    /\ sessions[c].faucetClaimed
    /\ sessions[c].holdings["USD"] = 10 * Unit
    /\ Len(sessions[c].positions) > 0

\* C2: a place_order answered with an error leaves the session's holdings,
\* positions and realized PnL as they were before the call.
C2_ErrorChangesNothing ==
  [][\A c \in Sockets :
       (OrderStep(c) /\ last'.result.error # "")
         => /\ sessions'[c].holdings = sessions[c].holdings
            /\ sessions'[c].positions = sessions[c].positions
            /\ sessions'[c].realizedPnl = sessions[c].realizedPnl]_vars

\* C3: an order with leverage 1 whose quote holding is at least size x
\* pairPrice succeeds, and the holdings afterwards are those before with the
\* quote holding lowered by size x pairPrice and rounded to 2 decimals.
C3_SpotDebit ==
  [][\A c \in Sockets :
       (/\ OrderStep(c)
        /\ last'.order.leverage = 1
        /\ Supported(sessions[c], last'.order)
        /\ Get(sessions[c].holdings, last'.order.quote) >= OrderCost(sessions[c], last'.order))
         => /\ last'.result.error = ""
            /\ sessions'[c].holdings =
                 Put(sessions[c].holdings, last'.order.quote,
                     Round2(Get(sessions[c].holdings, last'.order.quote)
                            - OrderCost(sessions[c], last'.order)))]_vars

\* Admin, 10000 USD, after a buy of 0.01 BTC at 67000 with leverage 1
C3_Witness ==
  \E c \in DOMAIN sessions :
    /\ sessions[c].mode = "Admin"
    /\ sessions[c].holdings = [k \in {"USD"} |-> 9330 * Unit]
    /\ sessions[c].positions =
         <<[symbol |-> "BTC", side |-> "long", entryPrice |-> 67000 * Unit,
            quantity |-> Lot, leverage |-> 1, margin |-> 670 * Unit,
            liquidated |-> FALSE]>>

\* C4: an order quoted in USD is accepted exactly when the USD holding is at
\* least the capital it needs; a refusal names the balance for leverage 1
\* and the margin above, and writes no position; an acceptance adds the full
\* size.
C4_UsdAcceptance ==
  [][\A c \in Sockets :
       (/\ OrderStep(c)
        /\ last'.order.quote = "USD"
        /\ Supported(sessions[c], last'.order))
         => LET order  == last'.order
                side   == PositionSide(order)
                enough == sessions[c].holdings["USD"] >= Required(sessions[c], order)
                before == IF HoldsAt(sessions[c].positions, order.base, side)
                          THEN PositionAt(sessions[c].positions, order.base, side).quantity
                          ELSE 0
            IN  /\ (last'.result.error = "") <=> enough
                /\ ~enough =>
                     /\ last'.result.error =
                          (IF order.leverage = 1
                           THEN "Insufficient balance for spot trade"
                           ELSE "Insufficient margin for leveraged trade")
                     /\ last'.fill = <<>>
                     /\ sessions'[c].positions = sessions[c].positions
                /\ enough =>
                     /\ last'.fill # <<>>
                     /\ last'.fill[1].quantity = before + order.size]_vars

\* EZ-Mode: a leveraged order in USD refused for its margin
C4_Witness ==
  /\ last.acked
  /\ last.result.error = "Insufficient margin for leveraged trade"
  /\ last.order.quote = "USD"
  /\ last.socket \in DOMAIN sessions
  /\ sessions[last.socket].mode = "EZ-Mode"

\* C5: a mark-to-market pass removes every position whose price has crossed
\* its liquidation price, lowers realized PnL by the sum of the margins of
\* the positions removed, keeps every other position as it is, and (in a
\* tick) leaves the holdings alone.
C5_MarkPass ==
  [][\A c \in DOMAIN sessions \cap DOMAIN sessions' :
       nGames' = nGames
         => LET pre    == PreMark(c)
                post   == sessions'[c].positions
                prices == sessions'[c].market.prices
                gone   == SelectSeq(pre, LAMBDA p : Crossed(p, prices))
            IN  /\ \A i \in 1..Len(pre) :
                     IF Crossed(pre[i], prices)
                     THEN ~HoldsAt(post, pre[i].symbol, pre[i].side)
                     ELSE Holds(post, pre[i])
                /\ Len(post) = Len(pre) - Len(gone)
                /\ sessions'[c].realizedPnl = sessions[c].realizedPnl - SumMargin(gone, Len(gone))
                /\ TickLoopStep => sessions'[c].holdings = sessions[c].holdings]_vars

\* after a tick: one position liquidated, its margin lost, another one kept
C5_Witness ==
  \E c \in DOMAIN sessions :
    /\ nTicks = 1 /\ pendingTicks = <<>>
    /\ nOrders = 2
    /\ last.fill # <<>>
    /\ sessions[c].realizedPnl = -last.fill[1].margin
    /\ Len(sessions[c].positions) = 1
    /\ ~SamePlace(sessions[c].positions[1], last.fill[1])

\* C6: a position created by an order with leverage L > 1 has margin size x
\* pairPrice / L, and a mark-to-market pass removes it exactly when the price
\* is at or beyond entry x (1 - 1/L) for a long, entry x (1 + 1/L) for a
\* short (L = 2, 5, 10, 200).
C6_MarginAndLiquidation ==
  [][\A c \in Sockets :
       /\ (/\ OrderStep(c)
           /\ last'.result.error = ""
           /\ last'.order.leverage > 1
           /\ ~HoldsAt(sessions[c].positions, last'.order.base, PositionSide(last'.order)))
            => /\ last'.fill[1].leverage = last'.order.leverage
               /\ 2 * Abs(last'.fill[1].margin * last'.order.leverage
                          - OrderCost(sessions[c], last'.order)) <= last'.order.leverage
       /\ (c \in DOMAIN sessions \cap DOMAIN sessions' /\ nGames' = nGames)
            => \A i \in 1..Len(PreMark(c)) :
                 LET p == PreMark(c)[i]
                 IN  (p.quantity = Lot /\ p.leverage \in {2, 5, 10, 200})
                       => (~Holds(sessions'[c].positions, p)
                             <=> Crossed(p, sessions'[c].market.prices))]_vars

\* a long opened at 67000 with leverage 2, removed when the price is 33500
C6_Witness ==
  \E c \in DOMAIN sessions :
    /\ last.fill # <<>>
    /\ last.fill[1].side = "long" /\ last.fill[1].leverage = 2
    /\ last.fill[1].quantity = Lot
    /\ last.fill[1].entryPrice = 67000 * Unit
    /\ last.fill[1].margin = 335 * Unit
    /\ sessions[c].market.prices["BTC"] = 33500 * Unit
    /\ sessions[c].positions = <<>>
    /\ sessions[c].realizedPnl = -335 * Unit

\* C7: running markToMarket again with unchanged prices changes neither the
\* positions nor realized PnL nor unrealized PnL.
C7_MarkIdempotent ==
  \A c \in DOMAIN sessions :
    LET again == markToMarket(sessions[c])
    IN  /\ again.positions = sessions[c].positions
        /\ again.realizedPnl = sessions[c].realizedPnl
        /\ again.unrealizedPnl = sessions[c].unrealizedPnl

\* C8: a session's unrealized PnL is the rounded sum, over its open
\* positions, of the leveraged price move at its current prices.
C8_UnrealizedOfOpenPositions ==
  \A c \in DOMAIN sessions : sessions[c].unrealizedPnl = unrealizedOf(sessions[c])

\* C9: a session never holds two positions with the same symbol and side; an
\* accepted order writes the position of its own symbol and side and leaves
\* every other position, the opposite side included, as it is.
C9_OnePerSymbolSide ==
  [][\A c \in DOMAIN sessions' :
       /\ NoDuplicate(sessions'[c].positions)
       /\ (OrderStep(c) /\ last'.result.error = "")
            => /\ last'.fill # <<>>
               /\ last'.fill[1].symbol = last'.order.base
               /\ last'.fill[1].side = PositionSide(last'.order)
               /\ \A i \in 1..Len(sessions[c].positions) :
                    ~SamePlace(sessions[c].positions[i], last'.fill[1])
                      => Holds(sessions'[c].positions, sessions[c].positions[i])]_vars

\* a long and a short on the same symbol side by side
C9_Witness ==
  \E c \in DOMAIN sessions :
    /\ Len(sessions[c].positions) = 2
    /\ sessions[c].positions[1].symbol = sessions[c].positions[2].symbol
    /\ sessions[c].positions[1].side # sessions[c].positions[2].side
    /\ nOrders = 2

\* C10: an accepted order that hits a position of its symbol and side leaves
\* it with the quantities added, the entry price within 0.0001 of the
\* quantity-weighted average of the old entry and the fill price, the larger
\* leverage and the margins added.
C10_Merge ==
  [][\A c \in Sockets :
       (/\ OrderStep(c)
        /\ last'.result.error = ""
        /\ HoldsAt(sessions[c].positions, last'.order.base, PositionSide(last'.order)))
         => LET order == last'.order
                old   == PositionAt(sessions[c].positions, order.base, PositionSide(order))
                new   == last'.fill[1]
                move  == last'.result.pairPrice - old.entryPrice
                share == MulDivQR(Abs(move), order.size, old.quantity + order.size)[1]
            IN  /\ new.quantity = old.quantity + order.size
                /\ new.leverage = Max(old.leverage, order.leverage)
                /\ new.margin = old.margin + Required(sessions[c], order)
                /\ Abs(new.entryPrice - old.entryPrice) \in {share, share + 1}
                /\ Sgn(new.entryPrice - old.entryPrice) \in {0, Sgn(move)}
                /\ HoldsAt(sessions'[c].positions, new.symbol, new.side)
                     => Holds(sessions'[c].positions, new)]_vars

\* Admin, 10000 USD, after two buys of 0.01 BTC at 67000 with leverage 1
C10_Witness ==
  \E c \in DOMAIN sessions :
    /\ sessions[c].mode = "Admin"
    /\ nOrders = 2 /\ last.order.size = Lot
    /\ sessions[c].holdings = [k \in {"USD"} |-> 8660 * Unit]
    /\ sessions[c].positions =
         <<[symbol |-> "BTC", side |-> "long", entryPrice |-> 67000 * Unit,
            quantity |-> 2 * Lot, leverage |-> 1, margin |-> 1340 * Unit,
            liquidated |-> FALSE]>>

\* C11: an order quoted in another currency than USD whose quote holding is
\* below its cost, in a session whose USD covers the shortfall, lowers USD by
\* shortfall x priceUSD(quote), is debited from the quote holding so
\* completed, and is answered with that USD amount as convertedFromUsd; any
\* other order leaves USD to its own debit and is answered with 0; and
\* convertedFromUsd is 0 exactly when the conversion debited no USD.
C11_Conversion ==
  [][\A c \in Sockets :
       (OrderStep(c) /\ Supported(sessions[c], last'.order))
         => LET order     == last'.order
                have      == Get(sessions[c].holdings, order.quote)
                usd       == Get(sessions[c].holdings, "USD")
                cost      == OrderCost(sessions[c], order)
                shortfall == cost - have
                needed    == MulDiv(shortfall, sessions[c].market.prices[order.quote], Unit)
                covered   == have < cost /\ usd > 0 /\ usd >= needed
                reported  == last'.result.convertedFromUsd
            IN  IF order.quote = "USD"
                THEN reported = 0
                ELSE /\ covered =>
                          /\ sessions'[c].holdings["USD"] = Round2(usd - needed)
                          /\ reported = needed
                          /\ last'.result.error = "" =>
                               sessions'[c].holdings[order.quote]
                                 = Round2(cost - Required(sessions[c], order))
                     /\ ~covered => sessions'[c].holdings["USD"] = usd /\ reported = 0
                     /\ reported = 0 <=> sessions'[c].holdings["USD"] = usd]_vars

\* C12: at most one tick is in flight at any time.
C12_TicksSerialized == Len(pendingTicks) <= 1

\* C14: the step in which a tick starts advances every connected session
\* that does not follow an external provider, and pushes a market_update to
\* it, whatever the external refreshes of that tick do.
C14_OthersAdvance ==
  [][nTicks' = nTicks + 1
       => \A c \in DOMAIN sessions \cap connected :
            (sessions[c].difficulty # "Real-World" \/ sessions[c].priceProvider = "internal")
              => /\ <<c, "market_update">> \in emitted'
                 /\ \E d \in DrawPatterns :
                      sessions'[c] = tickSession(sessions[c], priceSnapshots', d)]_vars

\* the price a Real-World session takes from a snapshot value: the value when
\* there is one, floored at 0.0001, its own price otherwise
Served(value, current) == IF value # 0 THEN Max(MinPrice, value) ELSE current

\* C15: when the fetch of an external provider fails, the provider's
\* snapshot stays what it was, and every Real-World session on that provider
\* that the tick then processes ends with the prices the snapshot serves, none
\* of them zero.
C15_FailedRefresh ==
  [][\A p \in externalProviders :
       <<p, "fetch_failed">> \in emitted'
         => /\ priceSnapshots'[p] = priceSnapshots[p]
            /\ \A c \in DOMAIN sessions \cap connected :
                 (/\ <<c, "market_update">> \in emitted'
                  /\ sessions[c].difficulty = "Real-World"
                  /\ sessions[c].priceProvider = p)
                   => \A a \in Assets :
                        /\ sessions'[c].market.prices[a]
                             = Served(priceSnapshots[p][a], sessions[c].market.prices[a])
                        /\ sessions'[c].market.prices[a] # 0]_vars

\* C16: every price of every session is at least 0.0001.
C16_PricesPositive ==
  \A c \in DOMAIN sessions :
    \A a \in Assets : sessions[c].market.prices[a] >= MinPrice

\* the connected Real-World sessions the last step's tick loop processed
Processed == {c \in DOMAIN sessions : /\ <<c, "market_update">> \in emitted'
                                      /\ sessions[c].difficulty = "Real-World"}

\* C17: after the session loop of a tick, each Real-World session's price of
\* an asset is its provider's snapshot value when the snapshot has one and
\* its previous price otherwise, and two Real-World sessions on the same
\* provider have the same price map.
C17_RealWorldFollowsSnapshot ==
  [][\A c \in Processed :
       /\ \A a \in Assets :
            LET value == priceSnapshots'[sessions[c].priceProvider][a]
            IN sessions'[c].market.prices[a]
                 = IF value # 0 THEN value ELSE sessions[c].market.prices[a]
       /\ \A e \in Processed :
            sessions[e].priceProvider = sessions[c].priceProvider
              => sessions'[e].market.prices = sessions'[c].market.prices]_vars

\* the providers the Real-World sessions of the registry have selected
SelectedProviders ==
  {sessions[c].priceProvider : c \in {d \in DOMAIN sessions : sessions[d].difficulty = "Real-World"}}

\* C18: a provider's snapshot changes only when a tick refreshes it, the
\* internal one in the step that starts the tick and an external one when
\* its fetch completes, and only for a provider a Real-World session had
\* selected when the tick collected the providers; no handler changes a
\* snapshot.
C18_SnapshotWrites ==
  [][/\ \A p \in priceProviders :
          priceSnapshots'[p] # priceSnapshots[p]
            => \/ /\ nTicks' = nTicks + 1
                  /\ p = "internal"
                  /\ p \in SelectedProviders
               \/ /\ nTicks' = nTicks /\ nGames' = nGames /\ nOrders' = nOrders
                  /\ p \in externalProviders
                  /\ \E i \in 1..Len(pendingTicks) :
                       /\ p \in pendingTicks[i]
                       /\ \/ pendingTicks' = [pendingTicks EXCEPT ![i] = @ \ {p}]
                          \/ /\ pendingTicks[i] = {p}
                             /\ Len(pendingTicks') = Len(pendingTicks) - 1
     /\ Len(pendingTicks') > Len(pendingTicks)
          => /\ nTicks' = nTicks + 1
             /\ pendingTicks'[Len(pendingTicks')] \subseteq SelectedProviders]_vars

C18_Witness ==
  /\ priceSnapshots["internal"] # initialSeedPrices
  /\ priceSnapshots["binance"] # initialSeedPrices
  /\ priceSnapshots["coingecko"] = initialSeedPrices
  /\ \E c \in DOMAIN sessions : sessions[c].difficulty = "Easy"

\* the session of connection c is not what it was: created, replaced,
\* modified or deleted
Changed(c) ==
  \/ (c \in DOMAIN sessions) # (c \in DOMAIN sessions')
  \/ c \in DOMAIN sessions /\ c \in DOMAIN sessions' /\ sessions'[c] # sessions[c]

\* the connection whose handler ran in this step: the one the step pushed a
\* session_update to, or the one that disconnected
Acted(c) == <<c, "session_update">> \in emitted' \/ c \in connected \ connected'

C20_GoneAfterDisconnect ==
  \A c \in Fleet \ connected :
    /\ c \notin DOMAIN sessions
    /\ <<c, "market_update">> \notin emitted
    /\ <<c, "session_update">> \notin emitted

C20_Witness ==
  /\ connected = {}
  /\ nGames = 1 /\ nTicks = 1
  /\ pendingTicks = <<>>
  /\ emitted = {<<"binance", "fetch_failed">>}

\* C21: a candle list never holds more than 120 candles, and an update that
\* opens a candle on a full list drops the oldest one and keeps the others.
C21_CandleCap ==
  /\ Len(candles) <= MaxCandles
  /\ [][/\ Len(candles') <= MaxCandles
        /\ (Len(candles) = MaxCandles /\ now' - candles[MaxCandles].time > TICK_MS * 2)
             => /\ Len(candles') = MaxCandles
                /\ SubSeq(candles', 1, MaxCandles - 1) = Tail(candles)
                /\ candles'[MaxCandles].time = now']_vars

\* a full list that has lost the first candle of generateInitialCandles
C21_Witness ==
  /\ Len(candles) = MaxCandles
  /\ candles[MaxCandles].time = now
  /\ candles[1].time = CandleEpoch - (InitialCandles - 1) * TICK_MS

\* this step is a claim_faucet handler running: no other handler and no tick
\* step leaves all of these as they were
FaucetStep ==
  UNCHANGED <<priceSnapshots, connected, pendingTicks, nGames, nTicks, nOrders>>

\* C22: claim_faucet grants exactly when the session's USD holding is <= 0
\* and its faucet is unclaimed; the grant sets the USD holding to 10, leaves
\* the other holdings and marks the faucet claimed; any other claim leaves the
\* session as it was, so a session is granted at most once.
C22_FaucetOnce ==
  [][FaucetStep
       => \A c \in DOMAIN sessions :
            IF ~sessions[c].faucetClaimed /\ sessions[c].holdings["USD"] <= 0
            THEN /\ sessions'[c].holdings = Put(sessions[c].holdings, "USD", 10 * Unit)
                 /\ sessions'[c].faucetClaimed
                 /\ <<c, "session_update">> \in emitted'
            ELSE sessions'[c] = sessions[c]]_vars

\* a session that has spent its USD and was granted the 10
C22_Witness ==
  \E c \in DOMAIN sessions :
    /\ sessions[c].faucetClaimed
    /\ sessions[c].holdings["USD"] = 10 * Unit
    /\ emitted = {<<c, "session_update">>}
    /\ last.order = Order("USD", "USD", "buy", 1000 * Unit, 1)

\* the highest leverage the order form of a mode offers
MaxLeverage(mode) == IF mode = "EZ-Mode" THEN 200 ELSE 500

\* C23: every open position has a leverage of at least 1 and at most the
\* maximum of the session's mode.
C23_LeverageWithinMode ==
  \A c \in DOMAIN sessions :
    \A i \in 1..Len(sessions[c].positions) :
      /\ sessions[c].positions[i].leverage >= 1
      /\ sessions[c].positions[i].leverage <= MaxLeverage(sessions[c].mode)

\* the starting balance of a mode, in USD
StartingBalance(mode) ==
  IF mode = "EZ-Mode" THEN 1000 ELSE IF mode = "Admin" THEN 10000 ELSE 25000

\* C24: the session a start_game leaves holds only USD, the starting
\* balance of its mode, no position, zero realized and unrealized PnL, an
\* unclaimed faucet and 20 bots, each with that balance and zero PnL.
C24_FreshSession ==
  [][nGames' = nGames + 1
       => \A c \in Sockets :
            <<c, "session_update">> \in emitted'
              => LET fresh == sessions'[c]
                     start == StartingBalance(fresh.mode) * Unit
                 IN  /\ fresh.holdings = [k \in {"USD"} |-> start]
                     /\ fresh.positions = <<>>
                     /\ fresh.realizedPnl = 0 /\ fresh.unrealizedPnl = 0
                     /\ ~fresh.faucetClaimed
                     /\ Len(fresh.bots) = 20
                     /\ \A i \in 1..Len(fresh.bots) :
                          /\ fresh.bots[i].balance = start
                          /\ fresh.bots[i].realizedPnl = 0
                          /\ fresh.bots[i].unrealizedPnl = 0]_vars

\* a Whale game started on a connection that had played before
C24_Witness ==
  \E c \in DOMAIN sessions :
    /\ nGames = 2 /\ nOrders >= 1
    /\ emitted = {<<c, "session_update">>}
    /\ last = NoEvent
    /\ sessions[c].mode = "Whale"
    /\ sessions[c].holdings["USD"] = 25000 * Unit

\* C25: every position of a session that a session_update carries has a
\* quantity above 0 and is not liquidated.
C25_PushedPositionsOpen ==
  [][\A c \in Fleet :
       <<c, "session_update">> \in emitted'
         => \A i \in 1..Len(sessions'[c].positions) :
              /\ sessions'[c].positions[i].quantity > 0
              /\ ~sessions'[c].positions[i].liquidated]_vars

\* the push of an accepted order of size 0: the position handleOrder wrote
\* is gone from the pushed session
C25_Witness ==
  \E c \in DOMAIN sessions :
    /\ emitted = {<<c, "session_update">>}
    /\ last.socket = c /\ last.acked /\ last.result.error = ""
    /\ last.fill # <<>> /\ last.fill[1].quantity = 0
    /\ sessions[c].positions = <<>>

\* C26: the handler of every place_order message calls the message's
\* acknowledgement callback, whether or not the connection has a session.
C26_OrderAnswered ==
  [][nOrders' = nOrders + 1
       => last'.acked]_vars

\* C27: the place_order handler of a connection that has a session sends
\* exactly one session_update and then the acknowledgement, for an accepted
\* order and for a refused one, and the session it pushes is marked to
\* market: a further mark-to-market would leave it as it is.
C27_OrderPush ==
  [][\A c \in Sockets :
       OrderStep(c)
         => /\ last'.sent = <<"session_update", "ack">>
            /\ emitted' = {<<c, "session_update">>}
            /\ markToMarket(sessions'[c]) = sessions'[c]]_vars

\* the push and acknowledgement of a refused order, in a session that had
\* lost a position to a liquidation
C27_Witness ==
  \E c \in DOMAIN sessions :
    /\ last.socket = c /\ last.acked /\ last.result.error # ""
    /\ last.sent = <<"session_update", "ack">>
    /\ sessions[c].realizedPnl < 0
    /\ sessions[c].positions = <<>>
    /\ nTicks = 0

\* C29: in every state, no open position of any session is at or beyond its
\* liquidation price at the session's current price of its symbol: a long
\* has price > entry x (1 - 1/leverage), a short price < entry x (1 +
\* 1/leverage).
C29_NoneCrossed ==
  \A c \in DOMAIN sessions :
    \A i \in 1..Len(sessions[c].positions) :
      ~Crossed(sessions[c].positions[i], sessions[c].market.prices)

\* after a tick that took BTC from 67000 to 60300, a long of leverage 5
\* opened at 67000, which that price does not liquidate
C29_Witness ==
  \E c \in DOMAIN sessions :
    /\ nTicks >= 1
    /\ sessions[c].market.prices["BTC"] = 60300 * Unit
    /\ \E i \in 1..Len(sessions[c].positions) :
         LET p == sessions[c].positions[i]
         IN  /\ p.symbol = "BTC" /\ p.side = "long" /\ p.leverage = 5
             /\ p.entryPrice = 67000 * Unit

\* a hundred equally spaced values of Math.random(), in thousandths
Rolls == {10 * k + 5 : k \in 0..99}

\* the Hard sessions the last step's tick loop processed
HardProcessed == {c \in DOMAIN sessions : /\ <<c, "market_update">> \in emitted'
                                          /\ sessions[c].difficulty = "Hard"}

\* the price a Hard step gives: price x (1 + direction x (uniform(0.003,
\* 0.011) + |bias|)), floored at 0.0001; rnd is the uniform draw in
\* thousandths, bias is in millionths
HardStep(price, direction, rnd, bias) ==
  Max(MinPrice, MulDiv(price, Million + direction * (3000 + 8 * rnd + Abs(bias)), Million))

\* C28 as stated: the step of a Hard tick is upward for 65 of 100 equally
\* likely rolls and downward for 35, and its size is price x (uniform(0.003,
\* 0.011) + |bias|).
C28_HardMostlyUp ==
  [][\A c \in HardProcessed : \A a \in Assets :
       LET price == sessions[c].market.prices[a]
           bias  == biasOf(sessions[c].positions, a)
           ups   == {roll \in Rolls :
                       driftFactor("Hard", bias, roll, drawn'[c][a][2]) > Million}
       IN  price # 0
             => /\ Cardinality(ups) = 65
                /\ \E direction \in {-1, 1} :
                     sessions'[c].market.prices[a]
                       = HardStep(price, direction, drawn'[c][a][2], bias)]_vars

\* C28: the step of a Hard tick is downward when the roll is above 0.35,
\* which 65 of 100 equally likely rolls are, and upward otherwise; its size
\* is price x (uniform(0.003, 0.011) + |bias|), and the new price is floored
\* at 0.0001 and rounded to the price grid.
C28_HardMostlyDown ==
  [][\A c \in HardProcessed : \A a \in Assets :
       LET price == sessions[c].market.prices[a]
           bias  == biasOf(sessions[c].positions, a)
           downs == {roll \in Rolls :
                       driftFactor("Hard", bias, roll, drawn'[c][a][2]) < Million}
           direction == IF drawn'[c][a][1] > 350 THEN -1 ELSE 1
       IN  price # 0
             => /\ Cardinality(downs) = 65
                /\ sessions'[c].market.prices[a]
                     = HardStep(price, direction, drawn'[c][a][2], bias)]_vars

\* a Hard session after a tick whose roll for BTC was 0.8: BTC has fallen
C28_Witness ==
  \E c \in DOMAIN sessions \cap DOMAIN drawn :
    /\ sessions[c].difficulty = "Hard"
    /\ drawn[c]["BTC"][1] = 800
    /\ sessions[c].market.prices["BTC"] < initialSeedPrices["BTC"]
    /\ nTicks = 1

\* C30: an accepted order is never liquidated by its own handler: when a
\* place_order with size > 0 and leverage >= 1 succeeds and writes a position
\* (opened or merged), a position of that symbol and side is still among the
\* session's open positions when the handler has finished, whatever the
\* quote of the pair.
C30_OrderSurvivesOwnHandler ==
  [][\A c \in DOMAIN sessions :
       (/\ OrderStep(c)
        /\ last'.result.error = ""
        /\ last'.order.size > 0
        /\ last'.order.leverage >= 1
        /\ last'.fill # <<>>)
         => HoldsAt(sessions'[c].positions, last'.order.base, PositionSide(last'.order))]_vars

\* C31: a tick never lowers the price of any symbol of an Easy session,
\* whatever positions the session holds: for every Easy session the tick's
\* session loop has processed, every price after the step is at least the
\* price before it.
C31_EasyNeverLowers ==
  [][\A c \in DOMAIN sessions \cap DOMAIN sessions' :
       (<<c, "market_update">> \in emitted' /\ sessions[c].difficulty = "Easy")
         => \A a \in Assets :
              sessions'[c].market.prices[a] >= sessions[c].market.prices[a]]_vars

\* C32: in every reachable state each session's order book is the one
\* derived from its current prices: every symbol with a positive price has
\* exactly 8 bids and 8 asks, bid i at price x (1 - (i+1) x 0.0015) and ask i
\* at price x (1 + (i+1) x 0.0015), rounded to 4 decimals, with sizes of at
\* least 0.
C32_BookFromPrices ==
  \A c \in DOMAIN sessions :
    LET prices == sessions[c].market.prices
        book   == sessions[c].market.orderBook
    IN  \A symbol \in DOMAIN prices :
          prices[symbol] > 0
            => /\ symbol \in DOMAIN book
               /\ Len(book[symbol].bids) = BookLevels
               /\ Len(book[symbol].asks) = BookLevels
               /\ \A i \in 0..(BookLevels - 1) :
                    /\ book[symbol].bids[i + 1].price
                         = MulDiv(prices[symbol], 10000 - (i + 1) * 15, 10000)
                    /\ book[symbol].asks[i + 1].price
                         = MulDiv(prices[symbol], 10000 + (i + 1) * 15, 10000)
                    /\ book[symbol].bids[i + 1].size >= 0
                    /\ book[symbol].asks[i + 1].size >= 0

\* a session whose BTC price a tick has moved off the seed price, with a
\* position open, and whose best bid is 0.15% below the new price
C32_Witness ==
  \E c \in DOMAIN sessions :
    /\ nTicks >= 1
    /\ sessions[c].market.prices["BTC"] = 66933 * Unit
    /\ Len(sessions[c].positions) = 1
    /\ sessions[c].market.orderBook["BTC"].bids[1].price = 668326005

\* the candles of the list are in strictly ascending time order and each has
\* low <= open <= high and low <= close <= high
WellFormed(candleList) ==
  /\ \A i \in 1..Len(candleList) :
       /\ candleList[i].low <= candleList[i].open /\ candleList[i].open <= candleList[i].high
       /\ candleList[i].low <= candleList[i].close /\ candleList[i].close <= candleList[i].high
  /\ \A i \in 1..(Len(candleList) - 1) : candleList[i].time < candleList[i + 1].time

\* C33: in every reachable state each symbol's candle list is strictly
\* ascending in time with low <= open <= high and low <= close <= high in
\* every candle; and a tick opens a new candle, with open = high = low =
\* close = the new price, only when the latest candle is older than two tick
\* intervals, and otherwise sets the latest candle's close to the new price
\* and widens its high and low to include it.
C33_CandlesWellFormed ==
  /\ [](\A c \in DOMAIN sessions : \A a \in Assets : WellFormed(sessions[c].market.candles[a]))
  /\ [][\A c \in DOMAIN sessions \cap DOMAIN sessions' :
          <<c, "market_update">> \in emitted'
            => \A a \in Assets :
                 LET old    == sessions[c].market.candles[a]
                     new    == sessions'[c].market.candles[a]
                     price  == sessions'[c].market.prices[a]
                     latest == old[Len(old)]
                 IN  IF now' - latest.time > 2 * TICK_MS
                     THEN /\ new[Len(new)] = Candle(now', price, price, price, price)
                          /\ SubSeq(new, 1, Len(new) - 1) \in {old, Tail(old)}
                     ELSE new = [old EXCEPT ![Len(old)] =
                                   Candle(latest.time, latest.open, Max(latest.high, price),
                                          Min(latest.low, price), price)]]_vars

\* C34: place_order, accepted or refused, leaves the session's prices,
\* candles and order book as they were.
C34_OrderLeavesMarket ==
  [][\A c \in DOMAIN sessions :
       OrderStep(c) => sessions'[c].market = sessions[c].market]_vars

\* an accepted order in a session whose prices, candles and order book a
\* tick has already changed
C34_Witness ==
  \E c \in DOMAIN sessions :
    /\ last.socket = c /\ last.acked /\ last.result.error = "" /\ last.fill # <<>>
    /\ nTicks >= 1
    /\ Len(sessions[c].market.candles["BTC"]) = InitialCandles + 1
    /\ sessions[c].market.prices["BTC"] # initialSeedPrices["BTC"]
    /\ Len(sessions[c].positions) = 1

\* C35: after a successful refresh of an external provider, the provider's
\* snapshot holds, for every asset, the value the feed has just reported if
\* it reported the asset and the default seed price otherwise, so it defines
\* a price for every asset.
C35_SnapshotOverSeeds ==
  [][\A e \in emitted' :
       (e[1] \in externalProviders /\ e[2] = "snapshot_updated")
         => \A a \in Assets :
              Get(priceSnapshots'[e[1]], a)
                = IF a \in DOMAIN e[3] THEN e[3][a] ELSE initialSeedPrices[a]]_vars

\* a refresh that read no BTC price has put the seed price back where an
\* earlier refresh had stored the price it read, 60300, which the session's
\* candles still show
C35_Witness ==
  /\ nTicks = 2
  /\ \E e \in emitted : e[1] = "binance" /\ e[2] = "snapshot_updated" /\ DOMAIN e[3] = {}
  /\ priceSnapshots["binance"] = initialSeedPrices
  /\ \E c \in DOMAIN sessions :
       /\ sessions[c].market.prices["BTC"] = initialSeedPrices["BTC"]
       /\ \E i \in 1..Len(sessions[c].market.candles["BTC"]) :
            sessions[c].market.candles["BTC"][i].low = 60300 * Unit

\* C36: a session's realized PnL never increases: with orders of size > 0
\* and leverage >= 1 (every order of Orders), realizedPnl is at most 0 in
\* every state of a game, and no place_order, claim_faucet or tick step
\* leaves it higher than it was.
C36_RealizedNeverIncreases ==
  /\ [](\A c \in DOMAIN sessions : sessions[c].realizedPnl <= 0)
  /\ [][\A c \in DOMAIN sessions \cap DOMAIN sessions' :
          nGames' = nGames => sessions'[c].realizedPnl <= sessions[c].realizedPnl]_vars

\* the extreme Math.random() draws of applyDifficultyDrift: the roll on
\* either side of both thresholds, the magnitude draw at both ends
DriftDraws == {<<roll, rnd>> : roll \in {200, 800}, rnd \in {0, 999}}

\* the prices the asset of the session can have after the next tick
Reach(session, a) == {nextPriceOf(session, a, priceSnapshots, d) : d \in DriftDraws}

\* C37: on Easy, Medium and Hard the exposure bias is -0.002 for a symbol
\* the session holds only long, +0.002 for one it holds only short and 0 for
\* none or both, and it moves the next price against the side held: compared
\* with holding no position, holding only a long never raises the highest
\* price the symbol can reach in the next tick and holding only a short
\* never lowers the lowest.
C37_BiasAgainstHolder ==
  \A c \in DOMAIN sessions :
    sessions[c].difficulty \in {"Easy", "Medium", "Hard"}
      => \A a \in Assets :
           LET session == sessions[c]
               flat    == [session EXCEPT !.positions = <<>>]
               long    == HoldsAt(session.positions, a, "long")
               short   == HoldsAt(session.positions, a, "short")
           IN  /\ biasOf(session.positions, a)
                    = (IF long /\ ~short THEN -2000 ELSE IF short /\ ~long THEN 2000 ELSE 0)
               /\ (long /\ ~short)
                    => \A p \in Reach(session, a) : \E q \in Reach(flat, a) : p <= q
               /\ (short /\ ~long)
                    => \A p \in Reach(session, a) : \E q \in Reach(flat, a) : p >= q

C39_StartOncePerAction ==
  /\ [](client.sent <= client.requests)
  /\ [][client.sent' # client.sent
          => /\ client.sent' = client.sent + 1
             /\ \/ client.requests' = client.requests + 1
                \/ client.pending /\ ~client.connected /\ client'.connected]_vars

====
